---- MODULE Spec2Model ----
(***************************************************************************)
(* Model of imgtools/modules/pet.py: the PET class that turns a raw PET    *)
(* DICOM series into an SUV or activity-concentration (ACT) image.         *)
(*                                                                         *)
(*   calc_factor(df, type)    scale factor from the radiopharmaceutical    *)
(*                            metadata, with defaults when tags are absent *)
(*   from_dicom_pet(path, t)  stored scale factor, or calc_factor as the   *)
(*                            backup; scales the image                     *)
(*   get_metadata()           the metadata dictionary                      *)
(*                                                                         *)
(* Floating point values are modelled exactly.  A finite value is          *)
(*      (n / d) * 2^(en / ed)                                              *)
(* with n, d odd and coprime (or n = 0), d > 0, ed > 0 and en/ed reduced;  *)
(* this form is canonical, so record equality is numeric equality.  The    *)
(* IEEE results inf and nan, which numpy scalars produce on a division by  *)
(* zero, are values of their own.  Rounding is not modelled; underflow of  *)
(* exp to zero is.                                                         *)
(***************************************************************************)
EXTENDS Integers, Sequences, FiniteSets, TLC

----------------------------------------------------------------------------
(* Exact arithmetic on the values a float64 computation yields.            *)

Abs(i) == IF i < 0 THEN -i ELSE i

RECURSIVE GCD(_, _)
GCD(x, y) == IF y = 0 THEN x ELSE GCD(y, x % y)

\* Number of factors two of a positive integer, and what is left without them.
RECURSIVE V2(_)
V2(i) == IF i % 2 = 0 THEN 1 + V2(i \div 2) ELSE 0

RECURSIVE OddPart(_)
OddPart(i) == IF i % 2 = 0 THEN OddPart(i \div 2) ELSE i

NaN == [k |-> "nan", n |-> 0, d |-> 1, en |-> 0, ed |-> 1]

Inf(sign) == [k |-> "inf", n |-> sign, d |-> 1, en |-> 0, ed |-> 1]

Zero == [k |-> "fin", n |-> 0, d |-> 1, en |-> 0, ed |-> 1]

\* (n / d) * 2^(e / ed) with n and d odd and coprime: the exponent reduced.
FinExp(n, d, e, ed) ==
    [k |-> "fin", n |-> n, d |-> d,
     en |-> e \div GCD(Abs(e), ed), ed |-> ed \div GCD(Abs(e), ed)]

\* sg * (n / d) * 2^(en / ed) with n and d coprime: the factors two moved
\* into the exponent.
FinOdd(sg, n, d, en, ed) ==
    FinExp(sg * OddPart(n), OddPart(d), en + (V2(n) - V2(d)) * ed, ed)

\* The canonical finite value (n / d) * 2^(en / ed), for d > 0 and ed > 0.
Fin(n, d, en, ed) ==
    IF n = 0 THEN Zero
    ELSE FinOdd(IF n < 0 THEN -1 ELSE 1, Abs(n) \div GCD(Abs(n), d),
                d \div GCD(Abs(n), d), en, ed)

FromInt(i) == Fin(i, 1, 0, 1)

IsZero(x) == x.k = "fin" /\ x.n = 0

Sign(x) == IF x.n < 0 THEN -1 ELSE 1

\* x * y in IEEE arithmetic: nan is absorbing and inf * 0 is nan.
FMul(x, y) ==
    IF x.k = "nan" \/ y.k = "nan" THEN NaN
    ELSE IF x.k = "inf" \/ y.k = "inf"
         THEN IF IsZero(x) \/ IsZero(y) THEN NaN ELSE Inf(Sign(x) * Sign(y))
    ELSE IF IsZero(x) \/ IsZero(y) THEN Zero
    ELSE LET g1 == GCD(Abs(x.n), y.d)
             g2 == GCD(Abs(y.n), x.d)
         IN  Fin((x.n \div g1) * (y.n \div g2), (x.d \div g2) * (y.d \div g1),
                 x.en * y.ed + y.en * x.ed, x.ed * y.ed)

\* x / y when the divisor is a numpy float64 scalar: a zero divisor gives
\* inf (nan for 0 / 0) and a RuntimeWarning, never a ZeroDivisionError.
FDiv(x, y) ==
    IF x.k = "nan" \/ y.k = "nan" THEN NaN
    ELSE IF y.k = "inf" THEN (IF x.k = "inf" THEN NaN ELSE Zero)
    ELSE IF IsZero(y) THEN (IF IsZero(x) THEN NaN ELSE Inf(Sign(x)))
    ELSE IF x.k = "inf" THEN Inf(Sign(x) * Sign(y))
    ELSE IF IsZero(x) THEN Zero
    ELSE LET g1 == GCD(Abs(x.n), Abs(y.n))
             g2 == GCD(x.d, y.d)
         IN  Fin(Sign(y) * (x.n \div g1) * (y.d \div g2),
                 (x.d \div g2) * (Abs(y.n) \div g1),
                 x.en * y.ed - y.en * x.ed, x.ed * y.ed)

FAbs(x) ==
    IF x.k = "nan" THEN NaN
    ELSE IF x.k = "inf" THEN Inf(1)
    ELSE [x EXCEPT !.n = Abs(x.n)]

\* exp underflows to 0.0 once its result is below 2^-1075.
ExpUnderflow == 1075

\* np.exp(-np.log(2) * (num / den)) = 2^(-num / den), for num >= 0, den > 0.
DecayExp(num, den) ==
    IF num >= ExpUnderflow * den THEN Zero ELSE Fin(1, 1, -num, den)

----------------------------------------------------------------------------
(* Tag values.  A string is a sequence of one-character strings.           *)

Digits == {"0", "1", "2", "3", "4", "5", "6", "7", "8", "9"}

DigitVal(c) == CASE c = "0" -> 0 [] c = "1" -> 1 [] c = "2" -> 2 [] c = "3" -> 3
                 [] c = "4" -> 4 [] c = "5" -> 5 [] c = "6" -> 6 [] c = "7" -> 7
                 [] c = "8" -> 8 [] c = "9" -> 9

AllDigits(s) == \A i \in 1..Len(s) : s[i] \in Digits

\* int(s) of a string of digits ("" counts as 0 here; callers check Len).
RECURSIVE ToInt(_)
ToInt(s) == IF s = <<>> THEN 0
            ELSE 10 * ToInt(SubSeq(s, 1, Len(s) - 1)) + DigitVal(s[Len(s)])

RECURSIVE Pow10(_)
Pow10(i) == IF i = 0 THEN 1 ELSE 10 * Pow10(i - 1)

\* Index of the first "." of s, or 0.
FirstDot(s) == IF \E i \in 1..Len(s) : s[i] = "."
               THEN CHOOSE i \in 1..Len(s) :
                        s[i] = "." /\ \A j \in 1..(i - 1) : s[j] # "."
               ELSE 0

SecondsPerDay == 86400

\* How the compiled format '%H%M%S.%f' splits the digits before the dot:
\*   H: 2[0-3] | [0-1]\d | \d     M: [0-5]\d | \d     S: 6[0-1] | [0-5]\d | \d
\* each alternation trying its two-digit branches first, the matcher
\* backtracking until the "." follows.  The splits, in the matcher's order:
FieldSplits == << <<2, 2, 2>>, <<2, 2, 1>>, <<2, 1, 2>>, <<2, 1, 1>>,
                  <<1, 2, 2>>, <<1, 2, 1>>, <<1, 1, 2>>, <<1, 1, 1>> >>

SplitFields(pre, sp) ==
    [H |-> ToInt(SubSeq(pre, 1, sp[1])),
     M |-> ToInt(SubSeq(pre, sp[1] + 1, sp[1] + sp[2])),
     S |-> ToInt(SubSeq(pre, sp[1] + sp[2] + 1, Len(pre)))]

SplitMatches(pre, sp) ==
    /\ sp[1] + sp[2] + sp[3] = Len(pre)
    /\ LET f == SplitFields(pre, sp)
       IN  /\ (sp[1] = 2 => f.H <= 23)
           /\ (sp[2] = 2 => f.M <= 59)
           /\ (sp[3] = 2 => f.S <= 61)

NoTime == [ok |-> FALSE, sec |-> 0, us |-> 0]

\* The first split, in the matcher's order, that matches pre; 0 if none does.
FirstSplit(pre) ==
    IF \A i \in 1..Len(FieldSplits) : ~SplitMatches(pre, FieldSplits[i]) THEN 0
    ELSE CHOOSE i \in 1..Len(FieldSplits) :
             /\ SplitMatches(pre, FieldSplits[i])
             /\ \A j \in 1..(i - 1) : ~SplitMatches(pre, FieldSplits[j])

\* The datetime of the matched fields f and fraction digits post: ValueError
\* for a second of 60 or 61, which the format admits and datetime does not.
TimeOfFields(f, post) ==
    IF f.S > 59 THEN NoTime
    ELSE [ok  |-> TRUE,
          sec |-> f.H * 3600 + f.M * 60 + f.S,
          us  |-> ToInt(post) * Pow10(6 - Len(post))]

\* The match of the digits pre before the dot and the text post after it:
\* ValueError when the fields do not match, when no fraction digit follows
\* the dot, and when text remains after the six digits %f takes at most.
MatchTime(pre, post, split) ==
    IF \/ ~AllDigits(pre)
       \/ ~AllDigits(post)
       \/ Len(post) < 1
       \/ Len(post) > 6
       \/ split = 0
    THEN NoTime
    ELSE TimeOfFields(SplitFields(pre, FieldSplits[split]), post)

ParseTime(s, dot) ==
    IF dot = 0 THEN NoTime
    ELSE MatchTime(SubSeq(s, 1, dot - 1), SubSeq(s, dot + 1, Len(s)),
                   FirstSplit(SubSeq(s, 1, dot - 1)))

\* datetime.datetime.strptime(s, '%H%M%S.%f'): the time of day as whole
\* seconds and microseconds, or ok = FALSE where it raises (TypeError for a
\* value that is no string, ValueError for text that does not match).
Strptime(tag) ==
    IF tag.st # "ok" THEN NoTime ELSE ParseTime(tag.v, FirstDot(tag.v))

\* The difference read as int(total_seconds()): signed, without the wrap.
TimedeltaSeconds_Signed(t1, t2) == t1.sec - t2.sec

\* (t1 - t2).seconds: timedelta keeps 0 <= microseconds < 10^6 and
\* 0 <= seconds < 86400 and puts the sign into days, which is not read.
TimedeltaSeconds(t1, t2) ==
    (t1.sec - t2.sec - (IF t1.us < t2.us THEN 1 ELSE 0)) % SecondsPerDay

NoFloat == [ok |-> FALSE, v |-> Zero]

\* float(tag) of a decimal-string (DS) element, whose value pydicom holds as
\* a number: AttributeError when the element is absent, TypeError when it
\* is empty (None).
FloatDS(tag) ==
    IF tag.st # "ok" THEN NoFloat ELSE [ok |-> TRUE, v |-> FromInt(tag.v)]

\* float of the text pre "." post, or of pre alone.
FloatOfDecimal(pre, post) ==
    IF ~AllDigits(pre) \/ ~AllDigits(post) \/ Len(pre) + Len(post) = 0
    THEN NoFloat
    ELSE [ok |-> TRUE,
          v  |-> Fin(ToInt(pre) * Pow10(Len(post)) + ToInt(post),
                     Pow10(Len(post)), 0, 1)]

FloatOfText(s, dot) ==
    IF dot = 0 THEN FloatOfDecimal(s, <<>>)
    ELSE FloatOfDecimal(SubSeq(s, 1, dot - 1), SubSeq(s, dot + 1, Len(s)))

\* float(s) of a time (TM) element, which pydicom holds as text: the decimal
\* number the text spells.
FloatTM(tag) ==
    IF tag.st # "ok" THEN NoFloat ELSE FloatOfText(tag.v, FirstDot(tag.v))

----------------------------------------------------------------------------
(* The DICOM dataset df and the raw image, as dcmread and read_image give  *)
(* them.  An element is absent ("missing": reading it raises               *)
(* AttributeError, or KeyError in the JSON dictionary), empty ("empty":    *)
(* its value is None) or holds a value ("ok").                             *)

Absent == [st |-> "missing", v |-> 0]

Empty == [st |-> "empty", v |-> 0]

Num(i) == [st |-> "ok", v |-> i]

AbsentTM == [st |-> "missing", v |-> <<>>]

Text(s) == [st |-> "ok", v |-> s]

T120000 == Text(<<"1", "2", "0", "0", "0", "0", ".", "0">>)

T113000 == Text(<<"1", "1", "3", "0", "0", "0", ".", "0">>)

T113000h == Text(<<"1", "1", "3", "0", "0", "0", ".", "5">>)

TNoFraction == Text(<<"1", "2", "0", "0", "0", "0">>)

TShort == Text(<<"2", "4", "6", "0", ".", "5">>)

TBadMinute == Text(<<"1", "2", "6", "0", "0", "0", ".", "0">>)

\* AcquisitionTime and RadiopharmaceuticalStartTime values.
AcquisitionTimes == {AbsentTM, T120000, T113000, TNoFraction, TBadMinute}

StartTimes == {AbsentTM, T120000, T113000h, TNoFraction, TShort}

PatientWeights == {Absent, Empty, Num(0), Num(70)}

HalfLives == {Absent, Empty, Num(0), Num(1), Num(6588)}

TotalDoses == {Absent, Empty, Num(0), Num(370000000)}

RadiopharmaceuticalItems ==
    [RadiopharmaceuticalStartTime : StartTimes,
     RadionuclideHalfLife : HalfLives,
     RadionuclideTotalDose : TotalDoses]

\* RadiopharmaceuticalInformationSequence: absent, without items, or one item.
InformationSequences ==
    {[st |-> "missing", items |-> <<>>], [st |-> "ok", items |-> <<>>]}
        \cup {[st |-> "ok", items |-> <<it>>] : it \in RadiopharmaceuticalItems}

\* The private elements (7053,1000) and (7053,1009) holding the scale factors.
StoredSUVFactors == {Absent, Num(3)}

StoredACTFactors == {Absent, Num(5)}

Datasets ==
    [PatientWeight : PatientWeights,
     AcquisitionTime : AcquisitionTimes,
     RadiopharmaceuticalInformationSequence : InformationSequences,
     t70531000 : StoredSUVFactors,
     t70531009 : StoredACTFactors]

Modes == {"SUV", "ACT"}

\* Largest pixel magnitude of the raw image.
MaxPixel == 1

\* The raw image: one pixel of every value in -MaxPixel .. MaxPixel.
RawImage == [i \in 1..(2 * MaxPixel + 1) |-> i - MaxPixel - 1]

\* Operations invoked on one dataset in a behaviour.
MaxCalls == 2

----------------------------------------------------------------------------
(* calc_factor                                                             *)

WeightWarning == "Patient Weight Not Present. Taking 75Kg"

FallbackWarning == "Not enough data available, taking average values"

ScaleWarning == "Scale factor not available in DICOMs. Calculating based on metadata, may contain errors"

RuntimeWarning == "RuntimeWarning: divide by zero or invalid value encountered"

DefaultWeight == 75000

UptakeSeconds == 6300

FallbackHalfLife == 6588

FallbackDose == 420000000

\* The default weight taken as 70 kg.
ResolveWeight_70kg(df) ==
    IF FloatDS(df.PatientWeight).ok
    THEN [v |-> FMul(FloatDS(df.PatientWeight).v, FromInt(1000)), warned |-> FALSE]
    ELSE [v |-> FromInt(70000), warned |-> TRUE]

\* try: weight = float(df.PatientWeight) * 1000  except: warn; weight = 75000
ResolveWeight(df) ==
    IF FloatDS(df.PatientWeight).ok
    THEN [v |-> FMul(FloatDS(df.PatientWeight).v, FromInt(1000)), warned |-> FALSE]
    ELSE [v |-> FromInt(DefaultWeight), warned |-> TRUE]

NoInputs == [ok |-> FALSE, seconds |-> 0, half_life |-> 0, dose |-> 0]

\* The two times parsed, the half-life and the dose read.
ParsedInputs(scan, inj, hl, ds) ==
    IF ~scan.ok \/ ~inj.ok \/ ~FloatDS(hl).ok \/ ~FloatDS(ds).ok THEN NoInputs
    ELSE [ok        |-> TRUE,
          seconds   |-> TimedeltaSeconds(scan, inj),
          half_life |-> hl.v,
          dose      |-> ds.v]

\* The statements of the second try block up to the division: ok = FALSE
\* where one of them raises (an absent sequence or element, an empty
\* sequence, text strptime rejects, an empty value).
PreciseInputs(df) ==
    IF \/ df.RadiopharmaceuticalInformationSequence.st # "ok"
       \/ Len(df.RadiopharmaceuticalInformationSequence.items) = 0
    THEN NoInputs
    ELSE ParsedInputs(
             Strptime(df.AcquisitionTime),
             Strptime(df.RadiopharmaceuticalInformationSequence.items[1]
                          .RadiopharmaceuticalStartTime),
             df.RadiopharmaceuticalInformationSequence.items[1].RadionuclideHalfLife,
             df.RadiopharmaceuticalInformationSequence.items[1].RadionuclideTotalDose)

\* The division by the half-life taken never to raise.
PrecisePath_Unchecked(p) == p.ok

\* The whole try block succeeds: the inputs p parse and seconds / half_life
\* (an int by a Python float) raises no ZeroDivisionError.
PrecisePath(p) == p.ok /\ p.half_life # 0

\* The uptake time added to the elapsed seconds of the precise path too.
PreciseA_PlusUptake(p) == DecayExp(p.seconds + UptakeSeconds, p.half_life)

\* a = np.exp(-np.log(2) * ((scan_time - injection_time).seconds / half_life))
PreciseA(p) == DecayExp(p.seconds, p.half_life)

\* a = np.exp(-np.log(2) * (1.75 * 3600) / 6588)
FallbackA == DecayExp(UptakeSeconds, FallbackHalfLife)

\* The dose that a is multiplied by: the tag's value, or 420 MBq.
DoseUsed(p) == IF PrecisePath(p) THEN FromInt(p.dose) ELSE FromInt(FallbackDose)

DecayFactor(p) == IF PrecisePath(p) THEN PreciseA(p) ELSE FallbackA

\* The elapsed seconds that enter a: the timedelta's, or 1.75 * 3600.
SecondsUsed(p) == IF PrecisePath(p) THEN p.seconds ELSE UptakeSeconds

\* Division by a Python float: a zero divisor raises ZeroDivisionError.
DivisionRaises_Python(y) == IsZero(y)

\* Whether x / y raises ZeroDivisionError.  Both divisors of calc_factor
\* (injected_dose_decay and a) are numpy float64 scalars, np.exp having made
\* a one: numpy divides by zero to inf or nan under a RuntimeWarning.
DivisionRaises(y) == FALSE

\* The ACT branch returning a itself.
ReturnValue_A(type, suv, a) == IF type = "SUV" THEN suv ELSE a

\* return suv if type == "SUV" else 1/a
ReturnValue(type, suv, a) == IF type = "SUV" THEN suv ELSE FDiv(FromInt(1), a)

\* The fallback taken without its warning.
FallbackWarnings_Silent(p) == <<>>

\* except: warnings.warn("Not enough data available, taking average values")
FallbackWarnings(p) == IF PrecisePath(p) THEN <<>> ELSE <<FallbackWarning>>

\* What a call of calc_factor leaves: whether it returned or let an
\* exception out, the value returned, its locals and its warnings in order.
CalcResult(type, w, p, a, decay, raises) ==
    [status   |-> IF raises THEN "raised" ELSE "returned",
     value    |-> IF raises THEN Zero ELSE ReturnValue(type, FDiv(w.v, decay), a),
     path     |-> IF PrecisePath(p) THEN "precise" ELSE "fallback",
     weight   |-> w.v,
     seconds  |-> SecondsUsed(p),
     a        |-> a,
     injected_dose_decay |-> decay,
     warnings |->
         (IF w.warned THEN <<WeightWarning>> ELSE <<>>)
         \o FallbackWarnings(p)
         \o (IF IsZero(decay) /\ ~raises THEN <<RuntimeWarning>> ELSE <<>>)
         \o (IF type # "SUV" /\ IsZero(a) /\ ~raises
             THEN <<RuntimeWarning>> ELSE <<>>)]

\* suv = weight/injected_dose_decay, and 1/a unless type == "SUV".
Divide(type, w, p, a, decay) ==
    CalcResult(type, w, p, a, decay,
               DivisionRaises(decay) \/ (type # "SUV" /\ DivisionRaises(a)))

\* injected_dose_decay = a * injected_dose, or 420000000 * a.
Decay(type, w, p, a) == Divide(type, w, p, a, FMul(a, DoseUsed(p)))

\* calc_factor from the weight w resolved and the inputs p parsed.
Compute(type, w, p) == Decay(type, w, p, DecayFactor(p))

\* One call of calc_factor(df, type).
CalcFactor(df, type) == Compute(type, ResolveWeight(df), PreciseInputs(df))

NotCalled ==
    [status |-> "none", value |-> Zero, path |-> "none", weight |-> Zero,
     seconds |-> 0, a |-> Zero, injected_dose_decay |-> Zero, warnings |-> <<>>]

----------------------------------------------------------------------------
(* from_dicom_pet                                                          *)

\* The two private elements taken for one another.
StoredTag_Swapped(df, type) == IF type = "SUV" THEN df.t70531009 ELSE df.t70531000

\* The element read for the type: '70531000' for "SUV", '70531009' otherwise.
StoredTag(df, type) == IF type = "SUV" THEN df.t70531000 ELSE df.t70531009

\* df.to_json_dict()[tag]["Value"][0] raises no KeyError.
StoredAvailable(df, type) == StoredTag(df, type).st = "ok"

\* try: factor = <stored>  except: warn; factor = cls.calc_factor(df, type)
BackupCall(df, type) ==
    IF StoredAvailable(df, type) THEN NotCalled ELSE CalcFactor(df, type)

\* The factor the image is scaled by, backup being the calc_factor call made.
ScaleFactor(df, type, backup) ==
    IF StoredAvailable(df, type) THEN FromInt(StoredTag(df, type).v)
    ELSE backup.value

\* sitk.Abs(sitk.Cast(pet, sitkFloat32) * factor), pixel by pixel.
ScaleImage(img, f) ==
    [i \in 1..Len(img) |-> FAbs(FMul(FromInt(img[i]), f))]

\* What a call of from_dicom_pet leaves: the image of the PET object it
\* returns, the factor f it scaled by, the calc_factor call it made and
\* the warnings.
ImageResult(img, type, stored, backup, f) ==
    [status   |-> IF backup.status = "raised" THEN "raised" ELSE "returned",
     type     |-> type,
     factor   |-> f,
     img_pet  |-> IF backup.status = "raised" THEN <<>> ELSE ScaleImage(img, f),
     backup   |-> backup,
     warnings |-> IF stored THEN <<>> ELSE <<ScaleWarning>> \o backup.warnings]

Scaled(df, img, type, backup) ==
    ImageResult(img, type, StoredAvailable(df, type), backup,
                ScaleFactor(df, type, backup))

\* One call of from_dicom_pet(path, type), df and img being what the series
\* at path holds.
FromDicomPet(df, img, type) == Scaled(df, img, type, BackupCall(df, type))

NoImage ==
    [status |-> "none", type |-> "none", factor |-> Zero, img_pet |-> <<>>,
     backup |-> NotCalled, warnings |-> <<>>]

----------------------------------------------------------------------------
(* get_metadata                                                            *)

\* float(x) / 1000
PerThousand(x) == FDiv(x, FromInt(1000))

\* self.metadata after the reads, keys of which were set before one raised.
MetadataResult(keys, w, scan, inj, hl, ds) ==
    [status         |-> IF keys = 5 THEN "returned" ELSE "raised",
     keys           |-> keys,
     weight         |-> IF keys >= 1 THEN w.v ELSE Zero,
     scan_time      |-> IF keys >= 2 THEN PerThousand(scan.v) ELSE Zero,
     injection_time |-> IF keys >= 3 THEN PerThousand(inj.v) ELSE Zero,
     half_life      |-> IF keys >= 4 THEN hl.v ELSE Zero,
     injected_dose  |-> IF keys >= 5 THEN ds.v ELSE Zero]

\* The five reads of get_metadata, in order; the first that raises ends the
\* call.
ReadMetadata(w, scan, inj, hl, ds) ==
    MetadataResult(IF ~w.ok THEN 0 ELSE IF ~scan.ok THEN 1 ELSE IF ~inj.ok THEN 2
                   ELSE IF ~hl.ok THEN 3 ELSE IF ~ds.ok THEN 4 ELSE 5,
                   w, scan, inj, hl, ds)

\* One call of get_metadata().
GetMetadata(df) ==
    IF \/ df.RadiopharmaceuticalInformationSequence.st # "ok"
       \/ Len(df.RadiopharmaceuticalInformationSequence.items) = 0
    THEN ReadMetadata(FloatDS(df.PatientWeight), FloatTM(df.AcquisitionTime),
                      NoFloat, NoFloat, NoFloat)
    ELSE ReadMetadata(
             FloatDS(df.PatientWeight),
             FloatTM(df.AcquisitionTime),
             FloatTM(df.RadiopharmaceuticalInformationSequence.items[1]
                         .RadiopharmaceuticalStartTime),
             FloatDS(df.RadiopharmaceuticalInformationSequence.items[1]
                         .RadionuclideHalfLife),
             FloatDS(df.RadiopharmaceuticalInformationSequence.items[1]
                         .RadionuclideTotalDose))

NoMetadata ==
    [status |-> "none", keys |-> 0, weight |-> Zero, scan_time |-> Zero,
     injection_time |-> Zero, half_life |-> Zero, injected_dose |-> Zero]

----------------------------------------------------------------------------
(* The state machine: a dataset and its image, and the operations invoked  *)
(* on them, each leaving its result.                                       *)

VARIABLES df, pet, factor, image, metadata, ncalls

vars == <<df, pet, factor, image, metadata, ncalls>>

Init ==
    /\ df \in Datasets
    /\ pet = RawImage
    /\ factor = [m \in Modes |-> NotCalled]
    /\ image = NoImage
    /\ metadata = NoMetadata
    /\ ncalls = 0

\* PET.calc_factor(df, type)
CallCalcFactor(type) ==
    /\ ncalls < MaxCalls
    /\ factor' = [factor EXCEPT ![type] = CalcFactor(df, type)]
    /\ ncalls' = ncalls + 1
    /\ UNCHANGED <<df, pet, image, metadata>>

\* PET.from_dicom_pet(path, type)
CallFromDicomPet(type) ==
    /\ ncalls < MaxCalls
    /\ image' = FromDicomPet(df, pet, type)
    /\ ncalls' = ncalls + 1
    /\ UNCHANGED <<df, pet, factor, metadata>>

\* PET(img_pet, df).get_metadata()
CallGetMetadata ==
    /\ ncalls < MaxCalls
    /\ metadata' = GetMetadata(df)
    /\ ncalls' = ncalls + 1
    /\ UNCHANGED <<df, pet, factor, image>>

Next ==
    \/ \E type \in Modes : CallCalcFactor(type)
    \/ \E type \in Modes : CallFromDicomPet(type)
    \/ CallGetMetadata

Spec == Init /\ [][Next]_vars

----------------------------------------------------------------------------
(* Vocabulary of the properties, read off the dataset itself and not off   *)
(* the operators above.                                                    *)

One == FromInt(1)

\* A time of day written HHMMSS.f with one to six fraction digits.
WellFormedTime(tag) ==
    /\ tag.st = "ok"
    /\ Len(tag.v) \in 8..13
    /\ tag.v[7] = "."
    /\ \A i \in (1..Len(tag.v)) \ {7} : tag.v[i] \in Digits
    /\ 10 * DigitVal(tag.v[1]) + DigitVal(tag.v[2]) <= 23
    /\ 10 * DigitVal(tag.v[3]) + DigitVal(tag.v[4]) <= 59
    /\ 10 * DigitVal(tag.v[5]) + DigitVal(tag.v[6]) <= 59

\* HH * 3600 + MM * 60 + SS of a well-formed time.
ClockSeconds(tag) ==
    (10 * DigitVal(tag.v[1]) + DigitVal(tag.v[2])) * 3600
    + (10 * DigitVal(tag.v[3]) + DigitVal(tag.v[4])) * 60
    + 10 * DigitVal(tag.v[5]) + DigitVal(tag.v[6])

\* The fraction of a well-formed time, in microseconds.
ClockMicros(tag) ==
    ToInt(SubSeq(tag.v, 8, Len(tag.v))) * Pow10(13 - Len(tag.v))

HasItem(d) ==
    /\ d.RadiopharmaceuticalInformationSequence.st = "ok"
    /\ Len(d.RadiopharmaceuticalInformationSequence.items) > 0

StartTag(d) ==
    IF HasItem(d)
    THEN d.RadiopharmaceuticalInformationSequence.items[1].RadiopharmaceuticalStartTime
    ELSE AbsentTM

HalfLifeTag(d) ==
    IF HasItem(d)
    THEN d.RadiopharmaceuticalInformationSequence.items[1].RadionuclideHalfLife
    ELSE Absent

DoseTag(d) ==
    IF HasItem(d)
    THEN d.RadiopharmaceuticalInformationSequence.items[1].RadionuclideTotalDose
    ELSE Absent

\* All four radiopharmaceutical inputs are present and parseable.
RadioTagsParse(d) ==
    /\ WellFormedTime(d.AcquisitionTime)
    /\ WellFormedTime(StartTag(d))
    /\ HalfLifeTag(d).st = "ok"
    /\ DoseTag(d).st = "ok"

\* weight_g as the specification resolves it.
WeightG(d) ==
    IF d.PatientWeight.st = "ok" THEN FromInt(1000 * d.PatientWeight.v)
    ELSE FromInt(75000)

\* The decay factor for 6300 s at a half-life of 6588 s: 2^(-6300/6588).
AverageA == Fin(1, 1, -6300, 6588)

\* The fallback-path result: weight / (420e6 * a) for SUV, 1 / a for ACT.
FallbackResult(m, weight) ==
    IF m = "SUV" THEN FDiv(weight, FMul(FromInt(420000000), AverageA))
    ELSE FDiv(One, AverageA)

Called(m) == factor[m].status # "none"

Count(seq, x) == Cardinality({i \in 1..Len(seq) : seq[i] = x})

WithWeight(d, kg) == [d EXCEPT !.PatientWeight = Num(kg)]

WithoutHalfLife(d) ==
    [d EXCEPT !.RadiopharmaceuticalInformationSequence.items[1].RadionuclideHalfLife
                  = Absent]

----------------------------------------------------------------------------
(* The properties.                                                         *)

\* C1: in either mode, whenever one of the four radiopharmaceutical inputs
\* is missing or unparseable (a time string that is not HHMMSS.ffffff
\* included), calc_factor returns the fallback-path result for dt = 6300 s,
\* half_life = 6588 s and dose = 420e6, whatever the other tags hold.
C1_FallbackWhenAnyInputBad ==
    \A m \in Modes :
        (Called(m) /\ ~RadioTagsParse(df)) =>
            /\ factor[m].status = "returned"
            /\ factor[m].value = FallbackResult(m, WeightG(df))

\* C2: with the weight tag missing or unparseable, calc_factor returns what
\* it returns for the same metadata with a patient weight of 75 kg, in both
\* modes and on both the precise and the fallback path.
C2_DefaultWeightIs75kg ==
    \A m \in Modes :
        (Called(m) /\ df.PatientWeight.st # "ok") =>
            /\ factor[m].status = "returned"
            /\ factor[m].value = CalcFactor(WithWeight(df, 75), m).value
            /\ factor[m].weight = FromInt(75000)

C2_Witness ==
    /\ Called("SUV")
    /\ df.PatientWeight.st = "missing"
    /\ factor["SUV"].path = "precise"
    /\ factor["SUV"].value.k = "fin"
    /\ factor["SUV"].value # Zero

\* C3: for every combination of missing, unparseable and present tags and
\* either mode, calc_factor lets no exception out: it returns a factor, and
\* it warns once for each default it substitutes (the weight default, the
\* radiopharmaceutical fallback) and not otherwise.
C3_NoExceptionAndWarnings ==
    \A m \in Modes :
        Called(m) =>
            /\ factor[m].status = "returned"
            /\ Count(factor[m].warnings, WeightWarning)
                   = (IF df.PatientWeight.st # "ok" THEN 1 ELSE 0)
            /\ Count(factor[m].warnings, FallbackWarning)
                   = (IF factor[m].path = "fallback" THEN 1 ELSE 0)
            /\ (factor[m].path = "precise" =>
                    /\ df.AcquisitionTime.st = "ok"
                    /\ StartTag(df).st = "ok"
                    /\ HalfLifeTag(df).st = "ok"
                    /\ DoseTag(df).st = "ok")

C3_Witness ==
    /\ Called("ACT")
    /\ df.PatientWeight.st = "empty"
    /\ HalfLifeTag(df).st = "empty"
    /\ factor["ACT"].status = "returned"
    /\ factor["ACT"].warnings = <<WeightWarning, FallbackWarning>>

\* The dose a call multiplied a by: the tag's on the precise path, else 420e6.
DoseOf(r) ==
    IF r.path = "precise" THEN FromInt(DoseTag(df).v) ELSE FromInt(420000000)

PreciseClockCall(m) ==
    /\ Called(m)
    /\ factor[m].path = "precise"
    /\ WellFormedTime(df.AcquisitionTime)
    /\ WellFormedTime(StartTag(df))

\* C5 as stated: on the precise path dt is (acquisition - injection) modulo
\* one day, in [0, 86400); with the acquisition earlier than the injection
\* it is 86400 minus the difference.  dt being a whole number of seconds,
\* that is: the fractions agree and the whole seconds differ by dt.
C5_ElapsedIsDifferenceModuloDay ==
    \A m \in Modes :
        PreciseClockCall(m) =>
            /\ factor[m].seconds \in 0..86399
            /\ ClockMicros(df.AcquisitionTime) = ClockMicros(StartTag(df))
            /\ factor[m].seconds =
                   (ClockSeconds(df.AcquisitionTime) - ClockSeconds(StartTag(df)))
                       % 86400

\* C5 as amended: on the precise path dt is the whole seconds of
\* (acquisition - injection) modulo one day, the fraction of a second
\* dropped: dt is an integer in [0, 86400), never negative, and equals
\* floor(acquisition - injection) modulo 86400.
C5_ElapsedIsWholeSecondsModuloDay ==
    \A m \in Modes :
        PreciseClockCall(m) =>
            LET acq == df.AcquisitionTime
                inj == StartTag(df)
                floorDiff ==
                    IF ClockMicros(acq) >= ClockMicros(inj)
                    THEN ClockSeconds(acq) - ClockSeconds(inj)
                    ELSE ClockSeconds(acq) - ClockSeconds(inj) - 1
            IN  /\ factor[m].seconds \in 0..86399
                /\ factor[m].seconds = floorDiff % 86400
                /\ (floorDiff < 0 => factor[m].seconds = 86400 + floorDiff)
                /\ factor[m].a = DecayExp(factor[m].seconds, HalfLifeTag(df).v)

C5_Witness ==
    /\ PreciseClockCall("ACT")
    /\ ClockSeconds(df.AcquisitionTime) = ClockSeconds(StartTag(df))
    /\ ClockMicros(df.AcquisitionTime) < ClockMicros(StartTag(df))
    /\ factor["ACT"].seconds = 86399

\* The acquisition and the injection are the same time of day, and the
\* half-life and the dose are present and parseable.
SameTimeCall ==
    /\ Called("ACT")
    /\ RadioTagsParse(df)
    /\ ClockSeconds(df.AcquisitionTime) = ClockSeconds(StartTag(df))
    /\ ClockMicros(df.AcquisitionTime) = ClockMicros(StartTag(df))

\* C6 as stated: with dt = 0 and the other radiopharmaceutical tags present
\* and parseable, a is exactly 1 and the ACT factor is exactly 1, for every
\* half-life and dose.
C6_NoDecayAtZeroElapsedAnyHalfLife ==
    SameTimeCall =>
        /\ factor["ACT"].a = One
        /\ factor["ACT"].value = One

\* C6 as amended: the same for every half-life other than zero.
C6_NoDecayAtZeroElapsed ==
    (SameTimeCall /\ HalfLifeTag(df).v # 0) =>
        /\ factor["ACT"].status = "returned"
        /\ factor["ACT"].seconds = 0
        /\ factor["ACT"].a = One
        /\ factor["ACT"].value = One

C6_Witness ==
    /\ SameTimeCall
    /\ HalfLifeTag(df).v = 6588
    /\ DoseTag(df).v > 0
    /\ factor["ACT"].value = One

\* All tags parse, the call computed a from them, and a or the decayed dose
\* is zero.
ZeroDivisorCall(m) ==
    /\ Called(m)
    /\ RadioTagsParse(df)
    /\ df.PatientWeight.st = "ok"
    /\ HalfLifeTag(df).v # 0
    /\ IsZero(factor[m].injected_dose_decay) \/ IsZero(factor[m].a)

\* C7 as stated: with all tags present and parseable and a or the decayed
\* dose zero, calc_factor substitutes no default and the division by zero
\* reaches the caller as a fault instead of a returned factor.
C7_DivisionFaultPropagates ==
    \A m \in Modes :
        ZeroDivisorCall(m) =>
            /\ factor[m].path = "precise"
            /\ factor[m].status = "raised"

\* C7 as amended: in that case calc_factor substitutes no default and no
\* fault reaches the caller either: the divisors being numpy scalars, the
\* division gives inf (nan for 0 / 0) under a RuntimeWarning, and
\* calc_factor returns: in SUV mode inf or nan, in ACT mode inf when a is
\* zero and the ordinary 1 / a when only the dose is.
C7_ZeroDivisorGivesNonFinite ==
    \A m \in Modes :
        ZeroDivisorCall(m) =>
            /\ factor[m].path = "precise"
            /\ factor[m].weight = FromInt(1000 * df.PatientWeight.v)
            /\ Count(factor[m].warnings, WeightWarning) = 0
            /\ Count(factor[m].warnings, FallbackWarning) = 0
            /\ Count(factor[m].warnings, RuntimeWarning) >= 1
            /\ factor[m].status = "returned"
            /\ (m = "SUV" =>
                    factor[m].value
                        = (IF df.PatientWeight.v = 0 THEN NaN ELSE Inf(1)))
            /\ (m = "ACT" =>
                    factor[m].value
                        = (IF IsZero(factor[m].a) THEN Inf(1)
                           ELSE [k |-> "fin", n |-> 1, d |-> 1,
                                 en |-> -factor[m].a.en, ed |-> factor[m].a.ed]))

C7_Witness ==
    /\ ZeroDivisorCall("SUV")
    /\ DoseTag(df).v = 0
    /\ df.PatientWeight.v = 70
    /\ factor["SUV"].status = "returned"
    /\ factor["SUV"].value = Inf(1)

\* The element holding the stored factor for the type asked for.
StoredFor(type) == IF type = "SUV" THEN df.t70531000 ELSE df.t70531009

\* C8: from_dicom_pet scales the image by the factor stored in the file for
\* the requested mode (70531000 for SUV, 70531009 otherwise) whenever that
\* element is readable, and then neither warns nor calls calc_factor; only
\* when reading it fails does it warn and scale by calc_factor(df, type).
C8_StoredFactorFirst ==
    image.status # "none" =>
        /\ image.status = "returned"
        /\ Len(image.img_pet) = Len(pet)
        /\ \A i \in 1..Len(pet) :
               image.img_pet[i] = FAbs(FMul(FromInt(pet[i]), image.factor))
        /\ StoredFor(image.type).st = "ok" =>
               /\ image.factor = FromInt(StoredFor(image.type).v)
               /\ image.backup.status = "none"
               /\ image.warnings = <<>>
        /\ StoredFor(image.type).st # "ok" =>
               /\ image.backup.status = "returned"
               /\ image.backup = CalcFactor(df, image.type)
               /\ image.factor = image.backup.value
               /\ Count(image.warnings, ScaleWarning) = 1
               /\ image.warnings[1] = ScaleWarning

C8_Witness ==
    /\ image.status = "returned"
    /\ image.type = "ACT"
    /\ df.t70531009.st = "missing"
    /\ df.t70531000.st = "ok"
    /\ image.backup.status = "returned"
    /\ image.backup.path = "precise"
    /\ image.factor = image.backup.value
    /\ image.factor.k = "fin"
    /\ image.img_pet[1] = image.factor

\* C9: get_metadata returns scan_time and injection_time in seconds: for
\* times given as HHMMSS clock values they are HH*3600 + MM*60 + SS, and
\* weight, half_life and injected_dose are the tag values.
C9_MetadataTimesInSeconds ==
    (/\ metadata.status # "none"
     /\ RadioTagsParse(df)
     /\ df.PatientWeight.st = "ok"
     /\ ClockMicros(df.AcquisitionTime) = 0
     /\ ClockMicros(StartTag(df)) = 0) =>
        /\ metadata.status = "returned"
        /\ metadata.weight = FromInt(df.PatientWeight.v)
        /\ metadata.half_life = FromInt(HalfLifeTag(df).v)
        /\ metadata.injected_dose = FromInt(DoseTag(df).v)
        /\ metadata.scan_time = FromInt(ClockSeconds(df.AcquisitionTime))
        /\ metadata.injection_time = FromInt(ClockSeconds(StartTag(df)))

\* C10: with all four radiopharmaceutical tags present and parseable but a
\* half-life of zero, the division inside the guarded block fails and is
\* caught: calc_factor warns of the fallback and returns what it returns
\* when a tag is missing (dt = 6300 s, half_life = 6588 s, dose = 420e6),
\* whatever the times and the dose, and no fault reaches the caller.
C10_ZeroHalfLifeFallsBack ==
    \A m \in Modes :
        (Called(m) /\ RadioTagsParse(df) /\ HalfLifeTag(df).v = 0) =>
            /\ factor[m].status = "returned"
            /\ factor[m].path = "fallback"
            /\ Count(factor[m].warnings, FallbackWarning) = 1
            /\ factor[m].a = AverageA
            /\ factor[m].value = FallbackResult(m, WeightG(df))
            /\ factor[m].value = CalcFactor(WithoutHalfLife(df), m).value

C10_Witness ==
    /\ Called("SUV")
    /\ RadioTagsParse(df)
    /\ HalfLifeTag(df).v = 0
    /\ DoseTag(df).v = 370000000
    /\ df.PatientWeight.v = 70
    /\ factor["SUV"].path = "fallback"
    /\ factor["SUV"].value = FallbackResult("SUV", FromInt(70000))

====
